---------------------------- MODULE Spec2Model ----------------------------
(***************************************************************************)
(* MainSpanProcessorWrapper of logfire/_internal/exporters/                *)
(* processor_wrapper.py: the suppression gate around a downstream span     *)
(* processor, and the rewrite rules it runs on spans at start and at end.  *)
(*                                                                         *)
(* Python strings are TLA+ strings, worked on character by character with  *)
(* Len, \o and SubSeq.  An attribute value is tagged with its Python type: *)
(* [str |-> s], [int |-> n], and None for "no value" (dict.get's default). *)
(* An attribute map is a function whose DOMAIN is the set of keys present. *)
(***************************************************************************)
EXTENDS Integers, Sequences, FiniteSets, TLC

(***************************************************************************)
(* Values                                                                  *)
(***************************************************************************)
S(s) == [str |-> s]
I(n) == [int |-> n]
None == [none |-> TRUE]

IsStr(v) == DOMAIN v = {"str"}
IsInt(v) == DOMAIN v = {"int"}

\* Python truthiness of an attribute value: None, "" and 0 are falsy.
Truthy(v) ==
    IF IsStr(v) THEN v.str # ""
    ELSE IF IsInt(v) THEN v.int # 0
    ELSE FALSE

\* attributes.get(key)
Get(attributes, key) ==
    IF key \in DOMAIN attributes THEN attributes[key] ELSE None

\* {**attributes, key: value}
Put(attributes, key, value) ==
    [k \in DOMAIN attributes \cup {key} |->
        IF k = key THEN value ELSE attributes[k]]

\* a or b
PyOr(a, b) == IF Truthy(a) THEN a ELSE b

(***************************************************************************)
(* Attribute keys and constants shared with the instrumentation layer      *)
(***************************************************************************)
ATTRIBUTES_LOG_LEVEL_NUM_KEY == "logfire.level_num"
ATTRIBUTES_MESSAGE_KEY == "logfire.msg"
ATTRIBUTES_MESSAGE_TEMPLATE_KEY == "logfire.msg_template"
ATTRIBUTES_SPAN_TYPE_KEY == "logfire.span_type"
PENDING_SPAN_NAME_SUFFIX == " (pending)"
HTTP_METHOD == "http.method"
HTTP_ROUTE == "http.route"
HTTP_TARGET == "http.target"
HTTP_URL == "http.url"
DB_SYSTEM == "db.system"
DB_STATEMENT == "db.statement"
ASGI_EVENT_TYPE == "asgi.event.type"
TYPE == "type"

\* LEVEL_NUMBERS['debug'], LEVEL_NUMBERS['error']: ordered by severity.
LevelDebug == 5
LevelError == 17

\* log_level_attributes(level)
log_level_attributes(level_num) ==
    [k \in {ATTRIBUTES_LOG_LEVEL_NUM_KEY} |-> I(level_num)]

\* {**attributes, **other}
Merge(attributes, other) ==
    [k \in DOMAIN attributes \cup DOMAIN other |->
        IF k \in DOMAIN other THEN other[k] ELSE attributes[k]]

(***************************************************************************)
(* Strings                                                                 *)
(***************************************************************************)
\* The characters of s at positions a..b (from 1), clamped to the string as
\* Python's slices are.
Slice(s, a, b) ==
    LET lo == IF a < 1 THEN 1 ELSE a
        hi == IF b > Len(s) THEN Len(s) ELSE b
    IN IF lo > hi THEN "" ELSE SubSeq(s, lo, hi)

Ch(s, i) == Slice(s, i, i)

\* s[:n] and s[n:] for n >= 0; s[:-n] and s[-n:] for n > 0
Prefix(s, n) == Slice(s, 1, n)
From(s, n) == Slice(s, n + 1, Len(s))
DropLast(s, n) == Slice(s, 1, Len(s) - n)
TakeLast(s, n) == Slice(s, Len(s) - n + 1, Len(s))

StartsWith(s, p) == Len(p) <= Len(s) /\ Prefix(s, Len(p)) = p
EndsWith(s, p) == Len(p) <= Len(s) /\ TakeLast(s, Len(p)) = p

\* s.find(c) for a one-character c, 1-based; 0 when c is not in s
Find(s, c) ==
    IF \E i \in 1..Len(s) : Ch(s, i) = c
    THEN CHOOSE i \in 1..Len(s) :
            Ch(s, i) = c /\ \A j \in 1..(i - 1) : Ch(s, j) # c
    ELSE 0

\* the first position of any character of cs at or after position from; 0 if none
FindAnyFrom(s, cs, from) ==
    IF \E i \in from..Len(s) : Ch(s, i) \in cs
    THEN CHOOSE i \in from..Len(s) :
            Ch(s, i) \in cs /\ \A j \in from..(i - 1) : Ch(s, j) \notin cs
    ELSE 0

\* s.rfind(c)
RFind(s, c) ==
    IF \E i \in 1..Len(s) : Ch(s, i) = c
    THEN CHOOSE i \in 1..Len(s) :
            Ch(s, i) = c /\ \A j \in (i + 1)..Len(s) : Ch(s, j) # c
    ELSE 0

Contains(s, c) == Find(s, c) # 0

\* s.split(c, 1): the parts before and after the first c
SplitOnce(s, c) ==
    LET i == Find(s, c) IN
    IF i = 0 THEN <<s>> ELSE <<Prefix(s, i - 1), From(s, i)>>

\* s.split(c)
RECURSIVE Split(_, _)
Split(s, c) ==
    LET i == Find(s, c) IN
    IF i = 0 THEN <<s>> ELSE <<Prefix(s, i - 1)>> \o Split(From(s, i), c)

\* s.replace(a, b) for one-character a
RECURSIVE Replace(_, _, _)
Replace(s, a, b) ==
    IF s = "" THEN ""
    ELSE (IF Ch(s, 1) = a THEN b ELSE Ch(s, 1)) \o Replace(From(s, 1), a, b)

\* sep.join(parts)
RECURSIVE Join(_, _)
Join(sep, parts) ==
    IF parts = <<>> THEN ""
    ELSE IF Len(parts) = 1 THEN parts[1]
    ELSE parts[1] \o sep \o Join(sep, Tail(parts))

\* The printable ASCII characters in code point order: 32 (space) to 95, and
\* 97 to 126 (code point 96, the backquote, cannot be written in a TLA+ string).
AsciiLow == " !\"#$%&'()*+,-./0123456789:;<=>?@ABCDEFGHIJKLMNOPQRSTUVWXYZ[\\]^_"
AsciiHigh == "abcdefghijklmnopqrstuvwxyz{|}~"

\* ord(c)
Ord(c) ==
    IF Find(AsciiLow, c) # 0 THEN 31 + Find(AsciiLow, c) ELSE 96 + Find(AsciiHigh, c)
\* chr(n)
Chr(n) == IF n <= 95 THEN Ch(AsciiLow, n - 31) ELSE Ch(AsciiHigh, n - 96)

\* a < b on str: by code point, a proper prefix first
RECURSIVE StrLess(_, _)
StrLess(a, b) ==
    IF b = "" THEN FALSE
    ELSE IF a = "" THEN TRUE
    ELSE IF Ch(a, 1) = Ch(b, 1) THEN StrLess(From(a, 1), From(b, 1))
    ELSE Ord(Ch(a, 1)) < Ord(Ch(b, 1))

\* c.lower()
LowerCh(c) == IF Ord(c) >= 65 /\ Ord(c) <= 90 THEN Chr(Ord(c) + 32) ELSE c
RECURSIVE Lower(_)
Lower(s) == IF s = "" THEN "" ELSE LowerCh(Ch(s, 1)) \o Lower(From(s, 1))

IsAlpha(c) == LET o == Ord(c) IN (o >= 65 /\ o <= 90) \/ (o >= 97 /\ o <= 122)
IsDigit(c) == LET o == Ord(c) IN o >= 48 /\ o <= 57

(***************************************************************************)
(* urllib.parse: urlparse(url).path, urlparse(url).query, parse_qs          *)
(***************************************************************************)
\* scheme_chars
IsSchemeChar(c) == IsAlpha(c) \/ IsDigit(c) \/ c \in {"+", "-", "."}

\* url.lstrip(...) of leading spaces
RECURSIVE LStrip(_)
LStrip(s) == IF s # "" /\ Ch(s, 1) = " " THEN LStrip(From(s, 1)) ELSE s

\* urlsplit: the scheme, when the text before the first ":" is one
HasScheme(url) ==
    LET i == Find(url, ":") IN
    /\ i > 1
    /\ IsAlpha(Ch(url, 1))
    /\ \A j \in 1..(i - 1) : IsSchemeChar(Ch(url, j))

UrlScheme(url) == IF HasScheme(url) THEN Lower(Prefix(url, Find(url, ":") - 1)) ELSE ""
AfterScheme(url) == IF HasScheme(url) THEN From(url, Find(url, ":")) ELSE url

\* _splitnetloc(url, 2): the netloc ends at the first of "/", "?", "#"
HasNetloc(rest) == Prefix(rest, 2) = "//"
NetlocEnd(rest) ==
    LET d == FindAnyFrom(rest, {"/", "?", "#"}, 3) IN
    IF d = 0 THEN Len(rest) + 1 ELSE d
UrlNetloc(rest) == IF HasNetloc(rest) THEN Slice(rest, 3, NetlocEnd(rest) - 1) ELSE ""
AfterNetloc(rest) == IF HasNetloc(rest) THEN From(rest, NetlocEnd(rest) - 1) ELSE rest

\* urlsplit raises ValueError("Invalid IPv6 URL") on an unbalanced bracket in the netloc
UrlParseRaises(url0) ==
    LET netloc == UrlNetloc(AfterScheme(LStrip(url0))) IN
    Contains(netloc, "[") # Contains(netloc, "]")

\* the url without scheme, netloc and fragment
BeforeFragment(url0) == SplitOnce(AfterNetloc(AfterScheme(LStrip(url0))), "#")[1]

\* urlsplit(url).path: what is before the first "?"
SplitPath(url0) == SplitOnce(BeforeFragment(url0), "?")[1]

\* urlparse(url).query
UrlQuery(url0) ==
    LET parts == SplitOnce(BeforeFragment(url0), "?") IN
    IF Len(parts) = 2 THEN parts[2] ELSE ""

uses_params == {"", "ftp", "hdl", "prospero", "http", "imap", "https", "shttp",
                "rtsp", "rtspu", "sip", "sips", "mms", "sftp", "tel"}

\* _splitparams(url)[0]: cut at the first ";" of the last path segment
SplitParams(path) ==
    LET slash == RFind(path, "/")
        i == IF slash # 0 THEN FindAnyFrom(path, {";"}, slash) ELSE Find(path, ";")
    IN IF i = 0 THEN path ELSE Prefix(path, i - 1)

\* urlparse(url).path
UrlPath(url0) ==
    LET path == SplitPath(url0) IN
    IF UrlScheme(LStrip(url0)) \in uses_params /\ Contains(path, ";")
    THEN SplitParams(path) ELSE path

HexUpper == "0123456789ABCDEF"
HexLower == "0123456789abcdef"
IsHex(c) == c # "" /\ (Find(HexUpper, c) # 0 \/ Find(HexLower, c) # 0)
HexVal(c) == IF Find(HexUpper, c) # 0 THEN Find(HexUpper, c) - 1 ELSE Find(HexLower, c) - 1

\* unquote(s): %XX decoded, for the code points of printable ASCII; any other
\* escape is kept as written.
RECURSIVE Unquote(_)
Unquote(s) ==
    IF s = "" THEN ""
    ELSE IF Ch(s, 1) = "%" /\ Len(s) >= 3 /\ IsHex(Ch(s, 2)) /\ IsHex(Ch(s, 3))
    THEN LET code == 16 * HexVal(Ch(s, 2)) + HexVal(Ch(s, 3)) IN
         IF code >= 32 /\ code <= 126 /\ code # 96
         THEN Chr(code) \o Unquote(From(s, 3))
         ELSE "%" \o Unquote(From(s, 1))
    ELSE Ch(s, 1) \o Unquote(From(s, 1))

\* parse_qsl(qs): the (name, value) pairs in order; a field without "=" or with
\* a blank value is dropped (keep_blank_values=False, strict_parsing=False).
RECURSIVE QslFields(_)
QslFields(fields) ==
    IF fields = <<>> THEN <<>>
    ELSE LET nv == SplitOnce(fields[1], "=")
             rest == QslFields(Tail(fields))
         IN IF Len(nv) = 2 /\ Len(nv[2]) > 0
            THEN <<<<Unquote(Replace(nv[1], "+", " ")),
                     Unquote(Replace(nv[2], "+", " "))>>>> \o rest
            ELSE rest

parse_qsl(qs) == IF qs = "" THEN <<>> ELSE QslFields(Split(qs, "&"))

\* [(k, v) for k, vs in parse_qs(qs).items() for v in vs]: the pairs grouped by
\* key, the keys in order of first appearance, each key's values in order.
RECURSIVE GroupByKey(_)
GroupByKey(pairs) ==
    IF pairs = <<>> THEN <<>>
    ELSE LET k == pairs[1][1]
             same == SelectSeq(pairs, LAMBDA p : p[1] = k)
             others == SelectSeq(pairs, LAMBDA p : p[1] # k)
         IN same \o GroupByKey(others)

QueryPairs(qs) == GroupByKey(parse_qsl(qs))

(***************************************************************************)
(* logfire utils: truncate_string; Python's repr of a str                   *)
(***************************************************************************)
\* max_length=20 in _tweak_http_spans
MaxLength == 20

\* The one-character middle of a truncated string.  The code passes U+2026
\* (horizontal ellipsis), which a TLA+ string cannot hold; "~" stands for it.
Middle == "~"

\* truncate_string(s, max_length=max_length, middle=middle)
truncate_string(s, max_length, middle) ==
    IF Len(s) <= max_length THEN s
    ELSE LET remaining_length == max_length - Len(middle)
             half == remaining_length \div 2
         IN Prefix(s, half) \o middle \o TakeLast(s, half)

\* s with every character c in cs written as a backslash and c
RECURSIVE Escape(_, _)
Escape(s, cs) ==
    IF s = "" THEN ""
    ELSE (IF Ch(s, 1) \in cs THEN "\\" \o Ch(s, 1) ELSE Ch(s, 1))
         \o Escape(From(s, 1), cs)

\* repr(s) of a printable str: in double quotes when s holds a single quote
\* and no double quote, else in single quotes; backslashes, and single quotes
\* inside single quotes, are escaped.
Repr(s) ==
    IF Contains(s, "'") /\ ~Contains(s, "\"")
    THEN "\"" \o Escape(s, {"\\"}) \o "\""
    ELSE "'" \o Escape(s, {"\\", "'"}) \o "'"

(***************************************************************************)
(* Spans.  A span (at start) and a ReadableSpanDict (at end) are records    *)
(* [name, instrumentation_scope, attributes, status]: the fields the rules  *)
(* read or write.  instrumentation_scope is None or S(scope name); status   *)
(* is [status_code, description] with description None or S(text).          *)
(***************************************************************************)
UNSET == "UNSET"
OK == "OK"
ERROR == "ERROR"

Status(status_code, description) ==
    [status_code |-> status_code, description |-> description]

Span(name, scope, attributes, status) ==
    [name |-> name, instrumentation_scope |-> scope,
     attributes |-> attributes, status |-> status]

(***************************************************************************)
(* The rules                                                                *)
(***************************************************************************)
ASGI_SCOPES == {"opentelemetry.instrumentation.asgi",
                "opentelemetry.instrumentation.starlette",
                "opentelemetry.instrumentation.fastapi"}
ASGI_SUFFIXES == {" http send", " http receive", " websocket send", " websocket receive"}
SQLALCHEMY_SCOPE == "opentelemetry.instrumentation.sqlalchemy"

_is_asgi_send_receive_span(name, instrumentation_scope) ==
    /\ instrumentation_scope # None
    /\ instrumentation_scope.str \in ASGI_SCOPES
    /\ \E suffix \in ASGI_SUFFIXES : EndsWith(name, suffix)

\* A variant of on_start's rule that keeps a level the span already carries
\* (setdefault in place of set_attributes).
_set_log_level_keeping_level(span) ==
    IF /\ _is_asgi_send_receive_span(span.name, span.instrumentation_scope)
       /\ ATTRIBUTES_LOG_LEVEL_NUM_KEY \notin DOMAIN span.attributes
    THEN [span EXCEPT !.attributes = Merge(@, log_level_attributes(LevelDebug))]
    ELSE span

\* on_start's rule: span.set_attributes(log_level_attributes('debug'))
_set_log_level_on_asgi_send_receive_spans(span) ==
    IF _is_asgi_send_receive_span(span.name, span.instrumentation_scope)
    THEN [span EXCEPT !.attributes = Merge(@, log_level_attributes(LevelDebug))]
    ELSE span

\* A variant of the level/status rule that compares the level with > in place
\* of >=.
_set_error_level_above_error(span) ==
    LET status == span.status
        attributes == span.attributes
        level == Get(attributes, ATTRIBUTES_LOG_LEVEL_NUM_KEY)
    IN IF status.status_code = ERROR /\ ATTRIBUTES_LOG_LEVEL_NUM_KEY \notin DOMAIN attributes
       THEN [span EXCEPT !.attributes = Merge(attributes, log_level_attributes(LevelError))]
       ELSE IF status.status_code = UNSET /\ IsInt(level) /\ level.int > LevelError
       THEN [span EXCEPT !.status = Status(ERROR, status.description)]
       ELSE span

_set_error_level_and_status(span) ==
    LET status == span.status
        attributes == span.attributes
        level == Get(attributes, ATTRIBUTES_LOG_LEVEL_NUM_KEY)
    IN IF status.status_code = ERROR /\ ATTRIBUTES_LOG_LEVEL_NUM_KEY \notin DOMAIN attributes
       THEN [span EXCEPT !.attributes = Merge(attributes, log_level_attributes(LevelError))]
       ELSE IF status.status_code = UNSET
       THEN IF IsInt(level) /\ level.int >= LevelError
            THEN [span EXCEPT !.status = Status(ERROR, status.description)]
            ELSE span
       ELSE span

\* A variant of the SQL-connect rule without the db.statement check.
_tweak_sqlalchemy_with_statement(span) ==
    IF /\ span.name = "connect"
       /\ span.instrumentation_scope = S(SQLALCHEMY_SCOPE)
       /\ DB_SYSTEM \in DOMAIN span.attributes
    THEN [span EXCEPT !.attributes = Merge(@, log_level_attributes(LevelDebug))]
    ELSE span

_tweak_sqlalchemy_connect_spans(span) ==
    LET scope == span.instrumentation_scope
        attributes == span.attributes
    IN IF span.name # "connect" THEN span
       ELSE IF scope = None \/ scope.str # SQLALCHEMY_SCOPE THEN span
       ELSE IF DB_SYSTEM \notin DOMAIN attributes \/ DB_STATEMENT \in DOMAIN attributes
       THEN span
       ELSE [span EXCEPT !.attributes = Merge(attributes, log_level_attributes(LevelDebug))]

\* A variant of the ASGI rule without the websocket.send/receive case: the
\* event type's tail is always added to the name.
_tweak_asgi_always_appending(span) ==
    LET name == span.name
        attributes == span.attributes
        typ == PyOr(Get(attributes, ASGI_EVENT_TYPE), Get(attributes, TYPE))
    IN IF /\ _is_asgi_send_receive_span(name, span.instrumentation_scope)
          /\ IsStr(typ)
          /\ (StartsWith(typ.str, "http.") \/ StartsWith(typ.str, "websocket."))
          /\ Get(attributes, ATTRIBUTES_MESSAGE_KEY) = S(name)
       THEN [span EXCEPT
                !.name = name \o " " \o SplitOnce(typ.str, ".")[2],
                !.attributes = Put(attributes, ATTRIBUTES_MESSAGE_KEY,
                                   S(name \o " " \o SplitOnce(typ.str, ".")[2]))]
       ELSE span

_tweak_asgi_send_receive_spans(span) ==
    LET name == span.name
        attributes == span.attributes
        typ == PyOr(Get(attributes, ASGI_EVENT_TYPE), Get(attributes, TYPE))
    IN IF ~_is_asgi_send_receive_span(name, span.instrumentation_scope) THEN span
       ELSE IF ~(/\ IsStr(typ)
                 /\ (StartsWith(typ.str, "http.") \/ StartsWith(typ.str, "websocket."))
                 /\ Get(attributes, ATTRIBUTES_MESSAGE_KEY) = S(name))
       THEN span
       ELSE LET new_name ==
                    IF typ.str \in {"websocket.send", "websocket.receive"}
                    THEN name
                    ELSE name \o " " \o SplitOnce(typ.str, ".")[2]
            IN [span EXCEPT !.name = new_name,
                            !.attributes = Put(attributes, ATTRIBUTES_MESSAGE_KEY, S(new_name))]

\* The sort key of a query pair: (len(pair[0]) + len(pair[1]), pair).
\* KeyLess(p, q): p's key is smaller than q's, as Python compares tuples.
KeyLess(p, q) ==
    LET n == Len(p[1]) + Len(p[2])
        m == Len(q[1]) + Len(q[2])
    IN \/ n < m
       \/ n = m /\ StrLess(p[1], q[1])
       \/ n = m /\ p[1] = q[1] /\ StrLess(p[2], q[2])

\* pairs.sort(key=...): stable, so a pair goes after those whose key is not larger
RECURSIVE InsertPair(_, _)
InsertPair(sorted, p) ==
    IF sorted = <<>> THEN <<p>>
    ELSE IF KeyLess(p, Head(sorted)) THEN <<p>> \o sorted
    ELSE <<Head(sorted)>> \o InsertPair(Tail(sorted), p)

RECURSIVE SortPairs(_)
SortPairs(pairs) ==
    IF pairs = <<>> THEN <<>>
    ELSE InsertPair(SortPairs(SubSeq(pairs, 1, Len(pairs) - 1)), pairs[Len(pairs)])

\* ' & '.join(f'{k}={v!r}' for k, v in truncated_pairs)
ShowPairs(pairs) ==
    Join(" & ", [i \in 1..Len(pairs) |->
        truncate_string(pairs[i][1], MaxLength, Middle) \o "="
        \o Repr(truncate_string(pairs[i][2], MaxLength, Middle))])

\* The text added to the message for the query of url, "" when there is none:
\* lines 234-248.  The url is one urlparse accepts.
QuerySuffix(url, target) ==
    LET query_string == UrlQuery(url)
        query_params == QueryPairs(query_string)
    IN IF query_params # <<>> /\ ~EndsWith(target, query_string)
       THEN " ? " \o ShowPairs(SortPairs(query_params))
       ELSE ""

\* if len(lst) == 2: lst.append(' '.join(lst))
WithCombination(lst) ==
    IF Len(lst) = 2 THEN Append(lst, Join(" ", lst)) ELSE lst

StrItem(v) == IF Truthy(v) /\ IsStr(v) THEN <<v.str>> ELSE <<>>

Elements(lst) == {lst[i] : i \in 1..Len(lst)}

\* The call's outcome: the span dict as the call leaves it, and whether the
\* call raised.
Returned(span) == [span |-> span, raised |-> FALSE]
Raised(span) == [span |-> span, raised |-> TRUE]

\* is_pending, and the name without the pending suffix: lines 172-175
IsPending(span) == Get(span.attributes, ATTRIBUTES_SPAN_TYPE_KEY) = S("pending_span")
HttpName(span) ==
    IF IsPending(span) THEN DropLast(span.name, Len(PENDING_SPAN_NAME_SUFFIX))
    ELSE span.name

\* A variant of the test of line 186 without "not target": a url replaces the
\* target the span carries.
DerivesTargetFromAnyUrl(target, url) ==
    Truthy(url) /\ IsStr(url) /\ ~UrlParseRaises(url.str)

\* Lines 186-191: http.target is taken from the url's path when it is missing
\* or empty and the url is a str that urlparse accepts.
DerivesTarget(target, url) ==
    ~Truthy(target) /\ Truthy(url) /\ IsStr(url) /\ ~UrlParseRaises(url.str)

HttpTarget(target, url) ==
    IF DerivesTarget(target, url) THEN S(UrlPath(url.str)) ELSE target

\* Lines 193-251, for the name, attributes and target that lines 172-191 give.
HttpRewrite(span, name, is_pending, attributes, method, route, target, url) ==
    LET names == WithCombination(StrItem(method) \o StrItem(route))
        messages == WithCombination(StrItem(method) \o StrItem(target))
        \* lines 215-218
        new_name ==
            IF names # <<>> /\ names[Len(names)] # name
            THEN names[Len(names)] \o (IF is_pending THEN PENDING_SPAN_NAME_SUFFIX ELSE "")
            ELSE span.name
        renamed == [span EXCEPT !.name = new_name, !.attributes = attributes]
        message == messages[Len(messages)]
        with_query == /\ Truthy(url) /\ Truthy(target) /\ IsStr(url) /\ IsStr(target)
                      /\ EndsWith(message, target.str)
    IN IF name \notin Elements(names \o messages)
       THEN Returned([span EXCEPT !.attributes = attributes])
       ELSE IF messages = <<>> THEN Returned(renamed)
       ELSE IF ~with_query
       THEN Returned(IF message # name
                     THEN [renamed EXCEPT !.attributes =
                              Put(attributes, ATTRIBUTES_MESSAGE_KEY, S(message))]
                     ELSE renamed)
       \* line 234: urlparse(url) outside any try
       ELSE IF UrlParseRaises(url.str) THEN Raised(renamed)
       ELSE LET final == message \o QuerySuffix(url.str, target.str) IN
            Returned(IF final # name
                     THEN [renamed EXCEPT !.attributes =
                              Put(attributes, ATTRIBUTES_MESSAGE_KEY, S(final))]
                     ELSE renamed)

_tweak_http_spans(span) ==
    LET attributes == span.attributes
        method == Get(attributes, HTTP_METHOD)
        route == Get(attributes, HTTP_ROUTE)
        target == Get(attributes, HTTP_TARGET)
        url == Get(attributes, HTTP_URL)
    IN IF ATTRIBUTES_MESSAGE_TEMPLATE_KEY \in DOMAIN attributes THEN Returned(span)
       ELSE IF S(HttpName(span)) # Get(attributes, ATTRIBUTES_MESSAGE_KEY) THEN Returned(span)
       ELSE IF ~(Truthy(method) \/ Truthy(route) \/ Truthy(target) \/ Truthy(url))
       THEN Returned(span)
       ELSE HttpRewrite(span, HttpName(span), IsPending(span),
                        IF DerivesTarget(target, url)
                        THEN Put(attributes, HTTP_TARGET, HttpTarget(target, url))
                        ELSE attributes,
                        method, route, HttpTarget(target, url), url)

(***************************************************************************)
(* The collaborators: the db-statement summarizer and the scrubber          *)
(***************************************************************************)
\* The longest statement shown whole by the summarizer below.
SummaryLength == 12

\* message_from_db_statement(attributes, message, span_name): a pure function
\* giving a short summary of the db.statement attribute, None without one.
message_from_db_statement(attributes, message, span_name) ==
    LET db_statement == Get(attributes, DB_STATEMENT) IN
    IF ~IsStr(db_statement) THEN None
    ELSE S(truncate_string(db_statement.str, SummaryLength, "..."))

_summarize_db_statement(span) ==
    LET attributes == span.attributes
        message == Get(attributes, ATTRIBUTES_MESSAGE_KEY)
        summary == message_from_db_statement(attributes, message, span.name)
    IN IF summary # None
       THEN [span EXCEPT !.attributes = Put(attributes, ATTRIBUTES_MESSAGE_KEY, summary)]
       ELSE span

\* scrubber.scrub_span(span_dict): the scrubber may redact any attribute
\* value.  key is the attribute it redacts in this call, None for none.
SCRUBBED == "[Scrubbed]"
scrub_span(span, key) ==
    IF key # None /\ key.str \in DOMAIN span.attributes
    THEN [span EXCEPT !.attributes = Put(@, key.str, S(SCRUBBED))]
    ELSE span

(***************************************************************************)
(* on_end's rule sequence, lines 54-58.  A rule that raises ends it.        *)
(***************************************************************************)
\* The element of a one-element set: { e(x) : x \in {v} } is e evaluated with
\* x bound to the value v.
The(set) == CHOOSE x \in set : TRUE

RuleSequence(span) ==
    The({ IF http.raised THEN http
          ELSE Returned(_set_error_level_and_status(_summarize_db_statement(http.span))) :
          http \in { _tweak_http_spans(sql) :
              sql \in { _tweak_sqlalchemy_connect_spans(asgi) :
                  asgi \in { _tweak_asgi_send_receive_spans(span) } } } })

(***************************************************************************)
(* The spans the rules are applied to                                       *)
(***************************************************************************)
\* The attribute map with the entries of f whose value is not None.
MkAttrs(f) == [k \in {k \in DOMAIN f : f[k] # None} |-> f[k]]

Maybe(strings) == {None} \cup {S(x) : x \in strings}

NoAttributes == [k \in {} |-> None]
Unset == Status(UNSET, None)
\* Status() keeps a description only with the ERROR code.
Statuses == {Unset, Status(OK, None), Status(ERROR, None), Status(ERROR, S("boom"))}

HTTPX_SCOPE == "opentelemetry.instrumentation.httpx"

\* http.url values: without and with a query, with pairs of equal combined
\* length, a repeated key, blank values, an empty path, a value and a key
\* longer than MaxLength, quoted and escaped characters, path parameters and
\* a fragment, a relative url, and two netlocs urlparse rejects.
Urls == {"http://h/x",
         "http://h/x?b=22&a=1",
         "http://h/x?bb=1&a=22&ab=2&a=1",
         "http://h?a=1",
         "http://h/x?q=abcdefghijklmnopqrstuvwxyz&averyveryverylongkeyname=1&e=&f",
         "http://h/x?n=it%27s+ok&m=%5C",
         "/x;p=1?a=1#frag",
         "http://[bad/x?a=1",
         "http://h]/x"}

HttpNames == {"GET", "/x", "GET /x", "foo", "GET /x?b=22&a=1"}

\* Spans as the HTTP instrumentations make them; a pending span's name ends
\* with PENDING_SPAN_NAME_SUFFIX.
HttpSpans ==
    { Span(IF span_type = S("pending_span") THEN name \o PENDING_SPAN_NAME_SUFFIX ELSE name,
           S(HTTPX_SCOPE),
           MkAttrs(ATTRIBUTES_MESSAGE_KEY :> (IF custom THEN S("custom") ELSE S(name))
                   @@ ATTRIBUTES_MESSAGE_TEMPLATE_KEY :> template
                   @@ ATTRIBUTES_SPAN_TYPE_KEY :> span_type
                   @@ HTTP_METHOD :> method @@ HTTP_ROUTE :> route
                   @@ HTTP_TARGET :> target @@ HTTP_URL :> url),
           Unset) :
        name \in HttpNames,
        custom \in BOOLEAN,
        template \in Maybe({"{method} {path}"}),
        span_type \in Maybe({"pending_span"}),
        method \in Maybe({"GET"}),
        route \in Maybe({"/x"}),
        target \in Maybe({"/x", "/x?b=22&a=1", ""}),
        url \in Maybe(Urls) }

AsgiNames == {"GET /x http send", "GET /x http receive", "ws websocket send",
              "ws websocket receive", "GET /x"}

\* Spans as the ASGI middleware makes them, and look-alikes from other scopes.
AsgiSpans ==
    { Span(name, scope,
           MkAttrs(ATTRIBUTES_MESSAGE_KEY :> message
                   @@ ASGI_EVENT_TYPE :> event_type @@ TYPE :> type),
           Unset) :
        name \in AsgiNames,
        scope \in Maybe(ASGI_SCOPES \cup {HTTPX_SCOPE}),
        message \in Maybe({"GET /x http send", "ws websocket send", "custom"}),
        event_type \in Maybe({"http.response.start", "websocket.send", "", "lifespan.startup",
                              "http.", "http.x http send"}) \cup {I(7)},
        type \in Maybe({"http.request", "websocket.receive"}) }

Levels == {None, I(LevelDebug), I(9), I(LevelError), I(21), S("error")}

\* Spans as the SQLAlchemy instrumentation makes them, with every status and level.
SqlSpans ==
    { Span(name, scope,
           MkAttrs(ATTRIBUTES_MESSAGE_KEY :> S(name)
                   @@ DB_SYSTEM :> system @@ DB_STATEMENT :> statement
                   @@ ATTRIBUTES_LOG_LEVEL_NUM_KEY :> level),
           status) :
        name \in {"connect", "SELECT"},
        scope \in Maybe({SQLALCHEMY_SCOPE, HTTPX_SCOPE}),
        system \in Maybe({"postgresql"}),
        statement \in Maybe({"SELECT 1", "SELECT * FROM t WHERE id = 1"}) \cup {I(1)},
        level \in Levels,
        status \in Statuses }

\* Spans on which one rule's result is another rule's case: an HTTP span
\* whose route is "connect" or ends like an ASGI send span's name, and an ASGI
\* send span with a db.statement.
CrossSpans ==
    { Span("/x", S(SQLALCHEMY_SCOPE),
           MkAttrs(ATTRIBUTES_MESSAGE_KEY :> S("/x") @@ HTTP_TARGET :> S("/x")
                   @@ HTTP_ROUTE :> S("connect") @@ DB_SYSTEM :> S("postgresql")),
           status) : status \in Statuses }
    \cup
    { Span("GET", S("opentelemetry.instrumentation.asgi"),
           MkAttrs(ATTRIBUTES_MESSAGE_KEY :> S("GET") @@ HTTP_METHOD :> S("GET")
                   @@ HTTP_ROUTE :> S("/x http send") @@ HTTP_TARGET :> S("/x http send")
                   @@ ASGI_EVENT_TYPE :> event_type),
           Unset) : event_type \in Maybe({"http.response.start"}) }
    \cup
    { Span("GET /x http send", S("opentelemetry.instrumentation.asgi"),
           MkAttrs(ATTRIBUTES_MESSAGE_KEY :> message
                   @@ ASGI_EVENT_TYPE :> S("http.response.start")
                   @@ DB_STATEMENT :> S(statement)),
           Unset) :
        message \in {S("GET /x http send"), S("custom")},
        statement \in {"SELECT 1", "GET /x http send"} }

Records == HttpSpans \cup AsgiSpans \cup SqlSpans \cup CrossSpans

\* The spans on_end is called with: ASGI send/receive spans and look-alikes,
\* HTTP spans (among them two whose url urlparse rejects), SQL spans, and an
\* ASGI send span that carries a db.statement.
EndSpans ==
    { Span(name, S("opentelemetry.instrumentation.asgi"),
           MkAttrs(ATTRIBUTES_MESSAGE_KEY :> message @@ ASGI_EVENT_TYPE :> event_type),
           Unset) :
        name \in {"GET /x http send", "ws websocket send"},
        message \in {S("GET /x http send"), S("ws websocket send")},
        event_type \in Maybe({"http.response.start", "websocket.send"}) }
    \cup
    { Span("GET /x http send", S(HTTPX_SCOPE),
           MkAttrs(ATTRIBUTES_MESSAGE_KEY :> S("GET /x http send")
                   @@ ASGI_EVENT_TYPE :> S("http.response.start")),
           Unset) }
    \cup
    { Span(name, S(HTTPX_SCOPE),
           MkAttrs(ATTRIBUTES_MESSAGE_KEY :> S(name) @@ HTTP_METHOD :> S("GET")
                   @@ HTTP_TARGET :> target @@ HTTP_URL :> S(url)),
           status) :
        name \in {"GET /x", "foo"},
        target \in Maybe({"/x"}),
        url \in {"http://h/x?b=22&a=1", "http://[bad/x?a=1"},
        status \in {Unset, Status(ERROR, S("boom"))} }
    \cup
    { Span("connect", S(SQLALCHEMY_SCOPE),
           MkAttrs(ATTRIBUTES_MESSAGE_KEY :> S("connect") @@ DB_SYSTEM :> S("postgresql")
                   @@ DB_STATEMENT :> statement @@ ATTRIBUTES_LOG_LEVEL_NUM_KEY :> level),
           Unset) :
        statement \in Maybe({"SELECT 1"}), level \in {None, I(LevelError)} }
    \cup
    { Span("GET /x http send", S("opentelemetry.instrumentation.asgi"),
           MkAttrs(ATTRIBUTES_MESSAGE_KEY :> S("GET /x http send")
                   @@ ASGI_EVENT_TYPE :> S("http.response.start")
                   @@ DB_STATEMENT :> S("SELECT 1")),
           Unset) }

\* The spans on_start is called with: at start a span has no message or event
\* type yet; it may carry a level.
StartSpans ==
    { Span(name, scope, MkAttrs(ATTRIBUTES_LOG_LEVEL_NUM_KEY :> level), Unset) :
        name \in {"GET /x http send", "ws websocket receive", "GET /x", "connect"},
        scope \in Maybe({"opentelemetry.instrumentation.asgi",
                         "opentelemetry.instrumentation.fastapi", HTTPX_SCOPE}),
        level \in {None, I(LevelError)} }

\* The attribute the scrubber redacts in a call, None for none.
ScrubChoices == {None, S(ATTRIBUTES_MESSAGE_KEY), S(HTTP_URL)}

(***************************************************************************)
(* State                                                                    *)
(***************************************************************************)
VARIABLES
    suppressed, \* is_instrumentation_suppressed(): the ambient flag
    stack,      \* the open scoped regions, innermost last: [kind, token], kind
                \* "suppress" (the caller's own), "on_start" or "on_end" (a
                \* forwarded call running in the downstream processor); token
                \* is the flag's value from before the region
    inflight,   \* the call the downstream processor is running: [op, input,
                \* span, suppressed], or None
    last,       \* the latest step: [op, input, before, outcome, span, trace]
    exited,     \* how the latest forwarded call ended: "no", "return", "raise"
    input,      \* the span dict a rule is applied to
    previous,   \* the span dict the latest application started from
    result,     \* the latest application's outcome: Returned(span) or Raised(span)
    applied     \* the rules applied so far, latest last; "on_end" is followed
                \* by the attribute its scrubber redacted, "" for none

procVars == <<suppressed, stack, inflight, last, exited>>
ruleVars == <<input, previous, result, applied>>
vars == <<suppressed, stack, inflight, last, exited, input, previous, result, applied>>

\* How deep scoped regions nest.
MaxDepth == 2

Step(op, span, before, outcome, after, trace) ==
    [op |-> op, input |-> span, before |-> before, outcome |-> outcome,
     span |-> after, trace |-> trace]

ProcIdle ==
    /\ suppressed = FALSE
    /\ stack = <<>>
    /\ inflight = None
    /\ last = Step("none", None, FALSE, "none", None, <<>>)
    /\ exited = "no"

RuleIdle ==
    /\ input = None
    /\ previous = None
    /\ result = Returned(None)
    /\ applied = <<>>

(***************************************************************************)
(* MainSpanProcessorWrapper                                                 *)
(***************************************************************************)
\* A handler's run up to its call of the downstream processor: outcome "noop"
\* (returned at once), "raised" (a rule raised) or "forwarded"; span is the
\* span as the handler leaves it; entered is the flag's value in the region
\* the downstream processor is called in; trace lists the steps run in order.
Handled(outcome, span, entered, trace) ==
    [outcome |-> outcome, span |-> span, entered |-> entered, trace |-> trace]

\* logfire.suppress_instrumentation(): the flag's value inside the region,
\* and after it, whichever way the region is left.
SuppressEnter(flag) == TRUE
SuppressExit(token, raised) == token

\* A variant of on_start without the test of line 44.
on_start_unguarded(span, flag) ==
    Handled("forwarded", _set_log_level_on_asgi_send_receive_spans(span),
            SuppressEnter(flag), <<"level", "suppress", "downstream">>)

\* A variant of on_start that forwards outside the with statement of line 47.
on_start_unsuppressed(span, flag) ==
    IF flag THEN Handled("noop", span, flag, <<>>)
    ELSE Handled("forwarded", _set_log_level_on_asgi_send_receive_spans(span),
                 flag, <<"level", "downstream">>)

\* on_start, lines 39-48
on_start(span, flag) ==
    IF flag THEN Handled("noop", span, flag, <<>>)
    ELSE Handled("forwarded", _set_log_level_on_asgi_send_receive_spans(span),
                 SuppressEnter(flag), <<"level", "suppress", "downstream">>)

\* on_end, lines 50-62
on_end(span, flag, scrub_key) ==
    IF flag THEN Handled("noop", span, flag, <<>>)
    ELSE The({ IF rules.raised
               THEN Handled("raised", rules.span, flag, <<"asgi", "sql", "http">>)
               ELSE Handled("forwarded", scrub_span(rules.span, scrub_key),
                            SuppressEnter(flag),
                            <<"asgi", "sql", "http", "summarize", "level", "scrub",
                              "suppress", "downstream">>) :
               rules \in {RuleSequence(span)} })

\* A call of on_start or on_end, by the tracing runtime or, while a forwarded
\* call is running, by the downstream processor's own telemetry.
Call(op, span, h) ==
    /\ last' = Step(op, span, suppressed, h.outcome, h.span, h.trace)
    /\ IF h.outcome = "forwarded"
       THEN /\ Len(stack) < MaxDepth
            /\ stack' = Append(stack, [kind |-> op, token |-> suppressed])
            /\ suppressed' = h.entered
            /\ inflight' = [op |-> op, input |-> span, span |-> h.span,
                            suppressed |-> h.entered]
       ELSE UNCHANGED <<stack, suppressed, inflight>>
    /\ UNCHANGED exited
    /\ UNCHANGED ruleVars

OnStart ==
    \E span \in StartSpans :
        \E h \in {on_start(span, suppressed)} : Call("on_start", span, h)

OnEnd ==
    \E span \in EndSpans, scrub_key \in ScrubChoices :
        \E h \in {on_end(span, suppressed, scrub_key)} : Call("on_end", span, h)

\* The downstream processor's on_start or on_end ends, returning or raising:
\* the with statement of lines 47 and 61 leaves its region.
Leave(raised) ==
    /\ stack # <<>>
    /\ stack[Len(stack)].kind \in {"on_start", "on_end"}
    /\ suppressed' = SuppressExit(stack[Len(stack)].token, raised)
    /\ stack' = SubSeq(stack, 1, Len(stack) - 1)
    /\ inflight' = None
    /\ exited' = IF raised THEN "raise" ELSE "return"
    /\ last' = Step(IF raised THEN "raise" ELSE "return", None, suppressed,
                    IF raised THEN "raised" ELSE "returned", None, <<>>)
    /\ UNCHANGED ruleVars

DownstreamReturn == Leave(FALSE)
DownstreamRaise == Leave(TRUE)

\* The caller's own suppressed region: with logfire.suppress_instrumentation()
EnterSuppressed ==
    /\ Len(stack) < MaxDepth
    /\ inflight = None
    /\ stack' = Append(stack, [kind |-> "suppress", token |-> suppressed])
    /\ suppressed' = SuppressEnter(suppressed)
    /\ last' = Step("enter", None, suppressed, "none", None, <<>>)
    /\ UNCHANGED <<inflight, exited>>
    /\ UNCHANGED ruleVars

LeaveSuppressed ==
    /\ stack # <<>>
    /\ stack[Len(stack)].kind = "suppress"
    /\ suppressed' = SuppressExit(stack[Len(stack)].token, FALSE)
    /\ stack' = SubSeq(stack, 1, Len(stack) - 1)
    /\ last' = Step("leave", None, suppressed, "none", None, <<>>)
    /\ UNCHANGED <<inflight, exited>>
    /\ UNCHANGED ruleVars

Init == ProcIdle /\ RuleIdle

Next ==
    \/ OnStart
    \/ OnEnd
    \/ DownstreamReturn
    \/ DownstreamRaise
    \/ EnterSuppressed
    \/ LeaveSuppressed

Spec == Init /\ [][Next]_vars

(***************************************************************************)
(* The rules, one at a time and in sequence                                 *)
(***************************************************************************)
\* How many times in a row the rule sequence is applied.
MaxApplications == 2

RuleInit ==
    /\ ProcIdle
    /\ input \in Records
    /\ previous = input
    /\ result = Returned(input)
    /\ applied = <<>>

\* One rule applied to the input.
Apply(rule, outcome) ==
    /\ applied = <<>>
    /\ applied' = <<rule>>
    /\ result' = outcome
    /\ UNCHANGED <<input, previous>>
    /\ UNCHANGED procVars

ApplyAsgi == Apply("asgi", Returned(_tweak_asgi_send_receive_spans(input)))
ApplySql == Apply("sql", Returned(_tweak_sqlalchemy_connect_spans(input)))
ApplyHttp == Apply("http", _tweak_http_spans(input))
ApplySummarize == Apply("summarize", Returned(_summarize_db_statement(input)))
ApplyLevel == Apply("level", Returned(_set_error_level_and_status(input)))

\* The whole sequence applied to the input, and again to what it returned.
ApplySequence ==
    /\ \A i \in 1..Len(applied) : applied[i] = "sequence"
    /\ Len(applied) < MaxApplications
    /\ ~result.raised
    /\ previous' = result.span
    /\ result' = RuleSequence(result.span)
    /\ applied' = Append(applied, "sequence")
    /\ UNCHANGED input
    /\ UNCHANGED procVars

\* A whole on_end of the input, with the flag clear, up to the call of the
\* downstream processor: the result is the span the call forwards.
ApplyOnEnd ==
    /\ applied = <<>>
    /\ \E scrub_key \in ScrubChoices :
        \E h \in {on_end(input, suppressed, scrub_key)} :
            /\ applied' = <<"on_end", IF scrub_key = None THEN "" ELSE scrub_key.str>>
            /\ result' = IF h.outcome = "forwarded" THEN Returned(h.span) ELSE Raised(h.span)
    /\ UNCHANGED <<input, previous>>
    /\ UNCHANGED procVars

RuleNext ==
    \/ ApplyAsgi
    \/ ApplySql
    \/ ApplyHttp
    \/ ApplySummarize
    \/ ApplyLevel
    \/ ApplySequence
    \/ ApplyOnEnd

RuleSpec == RuleInit /\ [][RuleNext]_vars


(***************************************************************************)
(* Properties of the processor                                              *)
(***************************************************************************)
IsCall(op) == op \in {"on_start", "on_end"}

\* The steps a forwarded call has run, in order, by the time the downstream
\* processor is called.
ForwardTrace(op) ==
    (IF op = "on_start" THEN <<"level">>
     ELSE <<"asgi", "sql", "http", "summarize", "level", "scrub">>)
    \o <<"suppress", "downstream">>

\* C1: a call of on_start or on_end made while the suppression flag is set is
\* a no-op: no rule and no scrubber runs, the span is left as it was, and the
\* downstream processor is not called (the flag, the open regions and the
\* downstream processor's state are as before the call).
C1_SuppressedCallIsNoOp ==
    [][ (IsCall(last'.op) /\ suppressed) =>
            /\ last'.before
            /\ last'.outcome = "noop"
            /\ last'.trace = <<>>
            /\ last'.span = last'.input
            /\ UNCHANGED <<suppressed, stack, inflight, exited>> ]_vars

\* An on_end issued by the downstream processor while it runs a forwarded
\* call was a no-op.
C1_Witness ==
    /\ last.op = "on_end"
    /\ last.before
    /\ last.outcome = "noop"
    /\ inflight # None

\* C2: a call made with the flag clear reaches the downstream processor only
\* with the flag set and only after the rules (and, for on_end, the scrubber)
\* have run, so the span it receives is their result; when the forwarded call
\* ends, by return or by raise, the flag is clear again; a call issued from
\* inside the forwarded call is a no-op; a top-level call made after a
\* forwarded call has ended is processed, not skipped.
C2_ForwardedUnderSuppression ==
    [][ /\ inflight' # None => (suppressed' /\ inflight'.suppressed)
        /\ last'.outcome = "forwarded" =>
              /\ ~last'.before
              /\ last'.trace = ForwardTrace(last'.op)
              /\ inflight' # None
              /\ inflight'.input = last'.input
              /\ inflight'.span = last'.span
              /\ IF last'.op = "on_start"
                 THEN last'.span = _set_log_level_on_asgi_send_receive_spans(last'.input)
                 ELSE \E scrub_key \in ScrubChoices :
                         last'.span = scrub_span(RuleSequence(last'.input).span, scrub_key)
        /\ last'.op \in {"return", "raise"} =>
              /\ inflight # None
              /\ inflight' = None
              /\ ~suppressed'
              /\ suppressed' = stack[Len(stack)].token
        /\ (IsCall(last'.op) /\ inflight # None) =>
              (last'.outcome = "noop" /\ UNCHANGED <<suppressed, inflight>>)
        /\ (IsCall(last'.op) /\ exited # "no" /\ ~suppressed) =>
              last'.outcome # "noop" ]_vars

\* After a forwarded call ended by a raise, a later top-level on_end is
\* forwarded with the flag set.
C2_Witness ==
    /\ exited = "raise"
    /\ last.op = "on_end"
    /\ last.outcome = "forwarded"
    /\ suppressed
    /\ inflight # None

\* C3: every on_end made with the flag clear runs all five rules and the
\* scrubber and forwards the span to the downstream processor: no rule's
\* error leaves on_end.
C3_OnEndAlwaysForwards ==
    (last.op = "on_end" /\ ~last.before) =>
        /\ last.outcome = "forwarded"
        /\ last.trace = ForwardTrace("on_end")
        /\ inflight # None
        /\ inflight.input = last.input

\* C9: a span passed to on_start with the flag clear, whose scope is one of
\* the ASGI, Starlette and FastAPI instrumentations and whose name ends with a
\* send/receive suffix, has the debug level when the downstream processor's
\* on_start receives it, whatever level it carried.
C9_AsgiStartLevelIsDebug ==
    (/\ inflight # None
     /\ inflight.op = "on_start"
     /\ inflight.input.instrumentation_scope \in {S(scope) : scope \in ASGI_SCOPES}
     /\ \E suffix \in ASGI_SUFFIXES : EndsWith(inflight.input.name, suffix)) =>
        Get(inflight.span.attributes, ATTRIBUTES_LOG_LEVEL_NUM_KEY) = I(LevelDebug)

\* A FastAPI send span that carried the error level is received with the
\* debug level.
C9_Witness ==
    /\ inflight # None
    /\ inflight.op = "on_start"
    /\ inflight.input.instrumentation_scope = S("opentelemetry.instrumentation.fastapi")
    /\ inflight.input.name = "GET /x http send"
    /\ Get(inflight.input.attributes, ATTRIBUTES_LOG_LEVEL_NUM_KEY) = I(LevelError)
    /\ Get(inflight.span.attributes, ATTRIBUTES_LOG_LEVEL_NUM_KEY) = I(LevelDebug)

(***************************************************************************)
(* Properties of the rules                                                  *)
(***************************************************************************)
\* C4: applying the rule sequence to its own result gives the same name,
\* attributes and status again.
C4_SequenceIdempotent ==
    (Len(applied) >= 2 /\ applied[Len(applied)] = "sequence") =>
        result = Returned(previous)

\* C5: the level/status rule (1) gives an ERROR span without a level the
\* error level and keeps its status; (2) otherwise gives an UNSET span whose
\* level is at least error the ERROR status code with the description kept,
\* and keeps its attributes; (3) leaves every other span, among them every OK
\* span, as it was.  (1) and (2) never both apply.
C5_LevelStatusReconciled ==
    applied = <<"level">> =>
        LET level == Get(input.attributes, ATTRIBUTES_LOG_LEVEL_NUM_KEY)
            error_without_level ==
                /\ input.status.status_code = ERROR
                /\ ATTRIBUTES_LOG_LEVEL_NUM_KEY \notin DOMAIN input.attributes
            unset_with_error_level ==
                /\ input.status.status_code = UNSET
                /\ IsInt(level)
                /\ level.int >= LevelError
        IN /\ ~result.raised
           /\ ~(error_without_level /\ unset_with_error_level)
           /\ error_without_level =>
                 result.span = [input EXCEPT !.attributes =
                                   Put(@, ATTRIBUTES_LOG_LEVEL_NUM_KEY, I(LevelError))]
           /\ unset_with_error_level =>
                 result.span = [input EXCEPT !.status =
                                   Status(ERROR, input.status.description)]
           /\ (~error_without_level /\ ~unset_with_error_level) => result.span = input
           /\ input.status.status_code = OK => result.span = input

\* An UNSET span whose level is exactly error gets the ERROR status code.
C5_Witness ==
    /\ applied = <<"level">>
    /\ input.status.status_code = UNSET
    /\ Get(input.attributes, ATTRIBUTES_LOG_LEVEL_NUM_KEY) = I(LevelError)
    /\ result.span.status.status_code = ERROR
    /\ result.span.attributes = input.attributes

\* C10: the SQL-connect rule sets the level to debug when the name is
\* "connect", the scope is the SQLAlchemy instrumentation, db.system is
\* present and db.statement is absent; otherwise it leaves the span as it was.
C10_SqlConnectDemoted ==
    applied = <<"sql">> =>
        result = Returned(
            IF /\ input.name = "connect"
               /\ input.instrumentation_scope = S(SQLALCHEMY_SCOPE)
               /\ DB_SYSTEM \in DOMAIN input.attributes
               /\ DB_STATEMENT \notin DOMAIN input.attributes
            THEN [input EXCEPT !.attributes =
                     Put(@, ATTRIBUTES_LOG_LEVEL_NUM_KEY, I(LevelDebug))]
            ELSE input)

\* A connect span that carried the error level is demoted to debug.
C10_Witness ==
    /\ applied = <<"sql">>
    /\ input.name = "connect"
    /\ input.instrumentation_scope = S(SQLALCHEMY_SCOPE)
    /\ DB_SYSTEM \in DOMAIN input.attributes
    /\ DB_STATEMENT \notin DOMAIN input.attributes
    /\ Get(input.attributes, ATTRIBUTES_LOG_LEVEL_NUM_KEY) = I(LevelError)
    /\ Get(result.span.attributes, ATTRIBUTES_LOG_LEVEL_NUM_KEY) = I(LevelDebug)

\* What the claims about the HTTP normalizer speak of, for a span: the name
\* without the pending suffix, the target (the url's path when the span has
\* no target and the url parses), and the two candidate lists.
ClaimName(span) ==
    IF Get(span.attributes, ATTRIBUTES_SPAN_TYPE_KEY) = S("pending_span")
    THEN DropLast(span.name, Len(PENDING_SPAN_NAME_SUFFIX))
    ELSE span.name

ClaimUrlParses(span) ==
    LET url == Get(span.attributes, HTTP_URL)
    IN Truthy(url) /\ IsStr(url) /\ ~UrlParseRaises(url.str)

ClaimTarget(span) ==
    IF ~Truthy(Get(span.attributes, HTTP_TARGET)) /\ ClaimUrlParses(span)
    THEN S(UrlPath(Get(span.attributes, HTTP_URL).str))
    ELSE Get(span.attributes, HTTP_TARGET)

ClaimNames(span) ==
    WithCombination(StrItem(Get(span.attributes, HTTP_METHOD))
                    \o StrItem(Get(span.attributes, HTTP_ROUTE)))

ClaimMessages(span) ==
    WithCombination(StrItem(Get(span.attributes, HTTP_METHOD)) \o StrItem(ClaimTarget(span)))

\* The normalizer's preconditions hold: no message template, the name is the
\* message, and some HTTP attribute is there.
ClaimHttpSpan(span) ==
    /\ ATTRIBUTES_MESSAGE_TEMPLATE_KEY \notin DOMAIN span.attributes
    /\ Get(span.attributes, ATTRIBUTES_MESSAGE_KEY) = S(ClaimName(span))
    /\ \E key \in {HTTP_METHOD, HTTP_ROUTE, HTTP_TARGET, HTTP_URL} :
          Truthy(Get(span.attributes, key))

ClaimIsCandidate(span) ==
    ClaimName(span) \in Elements(ClaimNames(span) \o ClaimMessages(span))

ClaimQuery(span) ==
    LET target == ClaimTarget(span)
        url == Get(span.attributes, HTTP_URL)
    IN IF /\ ClaimUrlParses(span)
          /\ Truthy(target) /\ IsStr(target)
          /\ QueryPairs(UrlQuery(url.str)) # <<>>
          /\ ~EndsWith(target.str, UrlQuery(url.str))
       THEN " ? " \o ShowPairs(SortPairs(QueryPairs(UrlQuery(url.str))))
       ELSE ""

\* C7: for a span with no message template whose name is its message and one
\* of the candidates, the HTTP normalizer makes the name the last entry of
\* names (with the pending suffix of a pending span) and the message the last
\* entry of messages followed by the query part; a list without entries
\* leaves its field as it was.  Name "GET", method "GET", route "/x" and url
\* "http://h/x?b=22&a=1" give "GET /x" and "GET /x ? a='1' & b='22'".
C7_HttpRewritten ==
    (applied = <<"http">> /\ ClaimHttpSpan(input) /\ ClaimIsCandidate(input)) =>
        LET names == ClaimNames(input)
            messages == ClaimMessages(input)
        IN /\ ~result.raised
           /\ result.span.name =
                 IF names = <<>> THEN input.name
                 ELSE names[Len(names)]
                      \o (IF ClaimName(input) = input.name THEN "" ELSE PENDING_SPAN_NAME_SUFFIX)
           /\ Get(result.span.attributes, ATTRIBUTES_MESSAGE_KEY) =
                 IF messages = <<>> THEN Get(input.attributes, ATTRIBUTES_MESSAGE_KEY)
                 ELSE S(messages[Len(messages)] \o ClaimQuery(input))
           /\ (/\ input.name = "GET"
               /\ Get(input.attributes, HTTP_METHOD) = S("GET")
               /\ Get(input.attributes, HTTP_ROUTE) = S("/x")
               /\ Get(input.attributes, HTTP_TARGET) = None
               /\ Get(input.attributes, HTTP_URL) = S("http://h/x?b=22&a=1")) =>
                 /\ result.span.name = "GET /x"
                 /\ Get(result.span.attributes, ATTRIBUTES_MESSAGE_KEY)
                       = S("GET /x ? a='1' & b='22'")

\* What the claims about the ASGI rule speak of: the event type, the span
\* the rule rewrites, and the name it gives it.
ClaimEventType(span) ==
    IF Truthy(Get(span.attributes, ASGI_EVENT_TYPE))
    THEN Get(span.attributes, ASGI_EVENT_TYPE)
    ELSE Get(span.attributes, TYPE)

ClaimAsgiSpan(span) ==
    /\ span.instrumentation_scope \in {S(scope) : scope \in ASGI_SCOPES}
    /\ \E suffix \in ASGI_SUFFIXES : EndsWith(span.name, suffix)
    /\ IsStr(ClaimEventType(span))
    /\ \/ Prefix(ClaimEventType(span).str, Len("http.")) = "http."
       \/ Prefix(ClaimEventType(span).str, Len("websocket.")) = "websocket."
    /\ Get(span.attributes, ATTRIBUTES_MESSAGE_KEY) = S(span.name)

ClaimAsgiName(span) ==
    LET typ == ClaimEventType(span).str
    IN IF typ \in {"websocket.send", "websocket.receive"} THEN span.name
       ELSE span.name \o " " \o From(typ, Find(typ, "."))

\* The ASGI rule alone: the name and message of a span it rewrites, and every
\* other span untouched.
ClaimAsgiRule ==
    applied = <<"asgi">> =>
        /\ ~result.raised
        /\ IF ClaimAsgiSpan(input)
           THEN /\ result.span.name = ClaimAsgiName(input)
                /\ Get(result.span.attributes, ATTRIBUTES_MESSAGE_KEY)
                      = S(ClaimAsgiName(input))
           ELSE result.span = input

\* C8 as stated: the ASGI rule's rewrite, and after a whole on_end the
\* forwarded span still has the name and message the rule gave it.
C8_AsgiRewriteSurvivesOnEnd ==
    /\ ClaimAsgiRule
    /\ (applied # <<>> /\ applied[1] = "on_end" /\ ClaimAsgiSpan(input)) =>
          /\ ~result.raised
          /\ result.span.name = ClaimAsgiName(input)
          /\ Get(result.span.attributes, ATTRIBUTES_MESSAGE_KEY) = S(ClaimAsgiName(input))

\* C8, amended: the ASGI rule's rewrite, and after a whole on_end the
\* forwarded span still has the name and message the rule gave it when the
\* span carries no http.method, http.route, http.target or http.url, its
\* db.statement is not a string, and the scrubber does not redact the message.
C8_AsgiRewrite ==
    /\ ClaimAsgiRule
    /\ (/\ applied # <<>> /\ applied[1] = "on_end" /\ ClaimAsgiSpan(input)
        /\ DOMAIN input.attributes \cap {HTTP_METHOD, HTTP_ROUTE, HTTP_TARGET, HTTP_URL} = {}
        /\ ~IsStr(Get(input.attributes, DB_STATEMENT))
        /\ applied[2] # ATTRIBUTES_MESSAGE_KEY) =>
          /\ ~result.raised
          /\ result.span.name = ClaimAsgiName(input)
          /\ Get(result.span.attributes, ATTRIBUTES_MESSAGE_KEY) = S(ClaimAsgiName(input))

\* A whole on_end of an ASGI send span with the event type
\* http.response.start forwards it under the longer name.
C8_Witness ==
    /\ applied = <<"on_end", "">>
    /\ ClaimAsgiSpan(input)
    /\ input.name = "GET /x http send"
    /\ result.span.name = "GET /x http send response.start"
    /\ Get(result.span.attributes, ATTRIBUTES_MESSAGE_KEY)
          = S("GET /x http send response.start")

====
